---- MODULE Spec2Model ----
(***************************************************************************)
(* Model of track-activity.py, the PostToolUse activity-tracking hook.     *)
(*                                                                         *)
(* One invocation of main() reads one event from standard input, appends   *)
(* a record to .claude/activity.jsonl, updates .claude/.session-state.json *)
(* and, on every UPDATE_INTERVAL-th meaningful action, rewrites            *)
(* .claude/LIVE-PROGRESS.md.  The four files are the shared state; the     *)
(* local variables of one run of main() are a "frame".                     *)
(*                                                                         *)
(* Strings whose characters matter (commands, subjects, checklist words)   *)
(* are sequences of one-character strings.  A file path is a record of its *)
(* root, its separator and its segments.  An instant is a number of clock  *)
(* units (UnitsPerDay units make one calendar day).                        *)
(***************************************************************************)
EXTENDS Integers, Sequences, FiniteSets, TLC

VARIABLES
    log,        \* .claude/activity.jsonl: the sequence of its lines
    stateFile,  \* .claude/.session-state.json
    snapshot,   \* .claude/LIVE-PROGRESS.md
    roadmap,    \* CLAUDE.md in the working directory
    now,        \* the UTC clock, in clock units
    tz,         \* offset of the local clock from UTC, in clock units
    inv,        \* frames of the invocations of main(), by process
    nEvents,    \* history: invocations started so far
    nSpecial,   \* history: invocations whose payload is not the ordinary edit
    seen,       \* history: meaningful-tool events that reached append_activity
    order,      \* history: processes in the order of their appends
    lastSaver   \* history: the process that called save_state last (0: none)

vars == <<log, stateFile, snapshot, roadmap, now, tz, inv, nEvents, nSpecial,
          seen, order, lastSaver>>

(***************************************************************************)
(* Configuration                                                           *)
(***************************************************************************)
UPDATE_INTERVAL == 5

MEANINGFUL_TOOLS == {"Edit", "Write", "MultiEdit", "Bash", "NotebookEdit", "TaskUpdate"}

\* cmd[:100] in append_activity
CommandLimit == 100

\* sorted(files_touched)[:15] in update_live_progress
FilesShown == 15

\* completed_tasks[-10:] in update_live_progress
TasksShown == 10

(***************************************************************************)
(* Bounds of the model                                                     *)
(***************************************************************************)
\* invocations in a serial run
MaxEvents == 11

\* invocations in a serial run whose payload is not the ordinary edit
MaxSpecial == 1

\* invocations in a run with a moving clock
MaxDayEvents == 6

\* clock ticks in a run with a moving clock
MaxTicks == 3

\* concurrent invocations
NProcs == 2

\* clock units in one calendar day
UnitsPerDay == 2

\* invocations in a run that starts from a damaged state document
MaxStateEvents == 4

\* invocations in a run over the checklists
MaxTaskEvents == 3

\* the longest command of a run over the commands
MaxCmdLen == 104

\* invocations in a run over the commands
MaxCmdEvents == 1

\* the most files a session has read before a run over the file lists
MaxFiles == 20

\* invocations in a run over the file lists
MaxFileEvents == 2

(***************************************************************************)
(* Strings and paths                                                       *)
(***************************************************************************)
Min(a, b) == IF a < b THEN a ELSE b

Max(a, b) == IF a > b THEN a ELSE b

\* s[:n]
Prefix(s, n) == SubSeq(s, 1, Min(n, Len(s)))

\* s[-n:]
Suffix(s, n) == SubSeq(s, Max(1, Len(s) - n + 1), Len(s))

\* the characters of ".claude"
DotClaude == <<".", "c", "l", "a", "u", "d", "e">>

\* A path: how it starts ("rel": relative; "cwd": with the working directory;
\* "other": with another root; "none": the empty string), its separator and
\* its segments, each the sequence of its characters.
NoPath == [root |-> "none", sep |-> "/", segs |-> <<>>]

PathA == [root |-> "rel", sep |-> "/", segs |-> <<<<"s", "r", "c">>, <<"a", ".", "p", "y">>>>]

PathB == [root |-> "rel", sep |-> "/", segs |-> <<<<"s", "r", "c">>, <<"b", ".", "p", "y">>>>]

\* .claude/notes.md
PathClaude ==
    [root |-> "rel", sep |-> "/", segs |-> <<DotClaude, <<"n", "o", "t", "e", "s", ".", "m", "d">>>>]

\* C:\proj\.claude\notes.md
PathClaudeWin ==
    [root |-> "other", sep |-> "\\", segs |-> <<<<"p", "r", "o", "j">>, DotClaude, <<"n", "o", "t", "e", "s", ".", "m", "d">>>>]

\* src/.claude: a file whose own name is .claude, no separator after it
PathDotfile == [root |-> "rel", sep |-> "/", segs |-> <<<<"s", "r", "c">>, DotClaude>>]

\* the segments that end with the characters ".claude"
EndsWithDotClaude(seg) == Suffix(seg, Len(DotClaude)) = DotClaude

\* (".claude" + sep) in file_path: a segment ending with .claude that is
\* followed by the separator sep
ContainsClaudeDir(path, sep) ==
    /\ path.sep = sep
    /\ \E i \in 1..(Len(path.segs) - 1) : EndsWithDotClaude(path.segs[i])

CmdShort == <<"l", "s">>

NoCmd == <<>>

NoSubject == <<>>

SubjectLogin == <<"l", "o", "g", "i", "n", " ", "f", "i", "x">>

(***************************************************************************)
(* The payload on standard input                                           *)
(***************************************************************************)
\* An event object.  top: the keys of the object; keys: the keys of
\* tool_input when it is a dict (input = "dict").
Event(top, tool, input, keys, path, cmd, status, id, subj) ==
    [shape |-> "object", top |-> top, tool_name |-> tool, input |-> input,
     keys |-> keys, file_path |-> path, command |-> cmd, status |-> status,
     taskId |-> id, subject |-> subj]

BothKeys == {"tool_name", "tool_input"}

\* standard input that json.load rejects (truncated or empty)
Truncated ==
    [Event({}, "", "dict", {}, NoPath, NoCmd, "none", "None", NoSubject)
        EXCEPT !.shape = "truncated"]

\* standard input that parses, but not to an object (such as [])
NonObject ==
    [Event({}, "", "dict", {}, NoPath, NoCmd, "none", "None", NoSubject)
        EXCEPT !.shape = "nonobject"]

EditA == Event(BothKeys, "Edit", "dict", {"file_path"}, PathA, NoCmd, "none", "None", NoSubject)

ReadB == Event(BothKeys, "Read", "dict", {"file_path"}, PathB, NoCmd, "none", "None", NoSubject)

BashLs == Event(BothKeys, "Bash", "dict", {"command"}, NoPath, CmdShort, "none", "None", NoSubject)

\* tool_input is a string, not a dict
BashRaw == Event(BothKeys, "Bash", "nondict", {}, NoPath, NoCmd, "none", "None", NoSubject)

EditClaude == Event(BothKeys, "Edit", "dict", {"file_path"}, PathClaude, NoCmd, "none", "None", NoSubject)

WriteClaudeWin == Event(BothKeys, "Write", "dict", {"file_path"}, PathClaudeWin, NoCmd, "none", "None", NoSubject)

EditDotfile == Event(BothKeys, "Edit", "dict", {"file_path"}, PathDotfile, NoCmd, "none", "None", NoSubject)

TaskDone ==
    Event(BothKeys, "TaskUpdate", "dict", {"taskId", "status", "subject"}, NoPath, NoCmd,
          "completed", "7", SubjectLogin)

TaskStarted ==
    Event(BothKeys, "TaskUpdate", "dict", {"taskId", "status"}, NoPath, NoCmd,
          "in_progress", "7", NoSubject)

\* a completed TaskUpdate that also names a file in the private directory
TaskDoneClaude ==
    Event(BothKeys, "TaskUpdate", "dict", {"taskId", "status", "subject", "file_path"},
          PathClaude, NoCmd, "completed", "7", SubjectLogin)

\* a TaskUpdate whose tool_input is not a dict
TaskRaw == Event(BothKeys, "TaskUpdate", "nondict", {}, NoPath, NoCmd, "none", "None", NoSubject)

\* an object with no tool_name and no tool_input
Bare == Event({}, "", "dict", {}, NoPath, NoCmd, "none", "None", NoSubject)

OrdinaryPayload == EditA

SpecialPayloads ==
    {Truncated, NonObject, ReadB, BashLs, BashRaw, EditClaude, WriteClaudeWin,
     EditDotfile, TaskDone, TaskStarted, TaskDoneClaude, TaskRaw, Bare}

Payloads == {OrdinaryPayload} \cup SpecialPayloads

(***************************************************************************)
(* The clock                                                               *)
(***************************************************************************)
\* the "%Y-%m-%d" part of an instant
DateOf(t) == t \div UnitsPerDay

\* datetime.utcnow().isoformat() + "Z"
UtcStamp(clock) == clock.now

\* datetime.now().strftime("%Y-%m-%d")
LocalDate(clock) == DateOf(clock.now + clock.tz)

\* datetime.now().strftime("%H:%M:%S")
LocalTime(clock) == (clock.now + clock.tz) % UnitsPerDay

\* entry.get("timestamp", "").startswith(today): the stamp begins with its date
StartsWithDate(stamp, today) == DateOf(stamp) = today

(***************************************************************************)
(* .claude/.session-state.json                                             *)
(***************************************************************************)
\* kind: "absent", "doc" (an object), "garbage" (json.loads rejects it),
\* "nonobject" (parses, but not to an object)
StateDoc(kind, count, tasks, start) ==
    [kind |-> kind, action_count |-> count, completed_tasks |-> tasks,
     session_start |-> start, milestones |-> <<>>]

NoState == StateDoc("absent", 0, <<>>, 0)

\* a load that stamps the document with the time of every load
load_state_restamping(file, clock) ==
    IF file.kind = "nonobject" THEN file
    ELSE StateDoc("doc", IF file.kind = "doc" THEN file.action_count ELSE 0,
                  IF file.kind = "doc" THEN file.completed_tasks ELSE <<>>,
                  LocalTime(clock))

load_state(file, clock) ==
    IF file.kind \in {"doc", "nonobject"}
    THEN file
    ELSE StateDoc("doc", 0, <<>>, LocalTime(clock))

\* an overwrite that keeps the larger counter of the file and the document
save_state_merging(file, state) ==
    IF file.kind = "doc" /\ file.action_count >= state.action_count
    THEN [state EXCEPT !.action_count = file.action_count + 1]
    ELSE state

\* state_file.write_text(json.dumps(state)): the file becomes the document
save_state(file, state) == state

(***************************************************************************)
(* .claude/activity.jsonl                                                  *)
(***************************************************************************)
\* kind: "record" (a line append_activity wrote), "garbage" (json.loads
\* rejects the line), "nonobject" (the line parses, but not to an object).
\* keys: the optional keys the record has.
LogLine(kind, stamp, local, tool, keys, file, cmd, id, status) ==
    [kind |-> kind, timestamp |-> stamp, time_local |-> local, tool |-> tool,
     session_id |-> "unknown", keys |-> keys, file |-> file, command |-> cmd,
     task_id |-> id, task_status |-> status]

GarbageLine == LogLine("garbage", 0, 0, "", {}, NoPath, NoCmd, "None", "none")

NonObjectLine == LogLine("nonobject", 0, 0, "", {}, NoPath, NoCmd, "None", "none")

\* a truncation that also marks the command of exactly 100 characters
TruncateAtLimit(cmd) ==
    IF Len(cmd) >= CommandLimit
    THEN Prefix(cmd, CommandLimit) \o <<".", ".", ".">>
    ELSE cmd

\* cmd[:100] + "..." if len(cmd) > 100 else cmd
Truncate(cmd) ==
    IF Len(cmd) > CommandLimit
    THEN Prefix(cmd, CommandLimit) \o <<".", ".", ".">>
    ELSE cmd

\* the entry append_activity builds from the payload
Entry(data, clock) ==
    LET isDict == data.input = "dict"
        hasFile == isDict /\ "file_path" \in data.keys
        hasCmd == isDict /\ ~hasFile /\ "command" \in data.keys
        isTask == isDict /\ "tool_name" \in data.top /\ data.tool_name = "TaskUpdate"
        done == isTask /\ "status" \in data.keys /\ data.status = "completed"
    IN  LogLine("record", UtcStamp(clock), LocalTime(clock),
                IF "tool_name" \in data.top THEN data.tool_name ELSE "unknown",
                (IF hasFile THEN {"file"} ELSE {})
                    \cup (IF hasCmd THEN {"command"} ELSE {})
                    \cup (IF isTask THEN {"task_id", "task_status"} ELSE {})
                    \cup (IF done THEN {"task_completed"} ELSE {}),
                IF hasFile THEN data.file_path ELSE NoPath,
                IF hasCmd THEN Truncate(data.command) ELSE NoCmd,
                IF isTask /\ "taskId" \in data.keys THEN data.taskId ELSE "None",
                IF isTask /\ "status" \in data.keys THEN data.status ELSE "none")

\* open(activity_file, "w"): the file is replaced by the one line
append_activity_overwriting(lines, entry) == <<entry>>

\* a write at the start of the file instead of its end
append_activity_prepending(lines, entry) == <<entry>> \o lines

\* open(activity_file, "a"); f.write(json.dumps(entry) + "\n"): one write of
\* one whole line at the end of the file
append_activity(lines, entry) == Append(lines, entry)

(***************************************************************************)
(* The scans of the log                                                    *)
(***************************************************************************)
ZeroCounts ==
    [edits |-> 0, writes |-> 0, reads |-> 0, commands |-> 0, tasks |-> 0, other |-> 0]

\* the counter a record's tool adds to
Category(tool) ==
    IF tool \in {"Edit", "MultiEdit"} THEN "edits"
    ELSE IF tool = "Write" THEN "writes"
    ELSE IF tool = "Read" THEN "reads"
    ELSE IF tool = "Bash" THEN "commands"
    ELSE IF tool \in {"TaskUpdate", "TaskCreate"} THEN "tasks"
    ELSE "other"

\* the characters a path starts with; the working directory is /w
RootText(root) ==
    IF root = "cwd" THEN <<"/", "w", "/">>
    ELSE IF root = "other" THEN <<"C", ":", "\\">>
    ELSE <<>>

\* sep.join(segs)
RECURSIVE Join(_, _)
Join(segs, sep) ==
    IF segs = <<>> THEN <<>>
    ELSE IF Len(segs) = 1 THEN segs[1]
    ELSE segs[1] \o <<sep>> \o Join(Tail(segs), sep)

\* the string of a path
Text(path) == RootText(path.root) \o Join(path.segs, path.sep)

\* str(Path(file_path).relative_to(Path.cwd())), or file_path on ValueError
RelativeToCwd(path) == IF path.root = "cwd" THEN [path EXCEPT !.root = "rel"] ELSE path

\* One pass of the loop of count_activity over lines[i..]: acc is
\* [ok, counts, files]; ok = FALSE is an exception that left the loop.
RECURSIVE CountFrom(_, _, _, _)
CountFrom(lines, i, today, acc) ==
    IF i > Len(lines) \/ ~acc.ok THEN acc
    ELSE LET line == lines[i]
         IN  IF line.kind = "garbage"
             THEN CountFrom(lines, i + 1, today, acc)
             ELSE IF line.kind = "nonobject"
             THEN [acc EXCEPT !.ok = FALSE]
             ELSE IF ~StartsWithDate(line.timestamp, today)
             THEN CountFrom(lines, i + 1, today, acc)
             ELSE CountFrom(lines, i + 1, today,
                    [acc EXCEPT
                       !.counts[Category(line.tool)] = @ + 1,
                       !.files = IF "file" \in line.keys
                                 THEN @ \cup {Text(RelativeToCwd(line.file))}
                                 ELSE @])

\* a scan that also skips the lines that are not objects
RECURSIVE CountFromLenient(_, _, _, _)
CountFromLenient(lines, i, today, acc) ==
    IF i > Len(lines) THEN acc
    ELSE LET line == lines[i]
         IN  IF line.kind # "record" \/ ~StartsWithDate(line.timestamp, today)
             THEN CountFromLenient(lines, i + 1, today, acc)
             ELSE CountFromLenient(lines, i + 1, today,
                    [acc EXCEPT
                       !.counts[Category(line.tool)] = @ + 1,
                       !.files = IF "file" \in line.keys
                                 THEN @ \cup {Text(RelativeToCwd(line.file))}
                                 ELSE @])

count_activity(lines, clock) ==
    CountFrom(lines, 1, LocalDate(clock), [ok |-> TRUE, counts |-> ZeroCounts, files |-> {}])

\* the loop of extract_completed_tasks over lines[i..]: acc is [ok, completed]
RECURSIVE ExtractFrom(_, _, _, _)
ExtractFrom(lines, i, today, acc) ==
    IF i > Len(lines) \/ ~acc.ok THEN acc
    ELSE LET line == lines[i]
         IN  IF line.kind = "garbage"
             THEN ExtractFrom(lines, i + 1, today, acc)
             ELSE IF line.kind = "nonobject"
             THEN [acc EXCEPT !.ok = FALSE]
             ELSE IF StartsWithDate(line.timestamp, today) /\ "task_completed" \in line.keys
             THEN ExtractFrom(lines, i + 1, today,
                    [acc EXCEPT !.completed =
                        Append(@, [id |-> line.task_id, time |-> line.time_local])])
             ELSE ExtractFrom(lines, i + 1, today, acc)

extract_completed_tasks(lines, clock) ==
    ExtractFrom(lines, 1, LocalDate(clock), [ok |-> TRUE, completed |-> <<>>])

(***************************************************************************)
(* .claude/LIVE-PROGRESS.md                                                *)
(***************************************************************************)
UpperCase == <<"A", "B", "C", "D", "E", "F", "G", "H", "I", "J", "K", "L", "M", "N", "O", "P", "Q", "R", "S", "T", "U", "V", "W", "X", "Y", "Z">>

LowerCase == <<"a", "b", "c", "d", "e", "f", "g", "h", "i", "j", "k", "l", "m", "n", "o", "p", "q", "r", "s", "t", "u", "v", "w", "x", "y", "z">>

Digits == <<"0", "1", "2", "3", "4", "5", "6", "7", "8", "9">>

\* the characters of the paths, by ascending code point
CodeOrder ==
    <<".", "/">> \o Digits \o <<":">> \o UpperCase \o <<"\\", "_">> \o LowerCase

\* the place of a character in the order of the code points
Code(c) == CHOOSE i \in 1..Len(CodeOrder) : CodeOrder[i] = c

\* a < b for two strings: at the first place where they differ, a has ended
\* or has the character of the lower code point
StrLess(a, b) ==
    \E k \in 1..(Min(Len(a), Len(b)) + 1) :
        /\ \A i \in 1..(k - 1) : a[i] = b[i]
        /\ \/ k > Len(a) /\ k <= Len(b)
           \/ k <= Len(a) /\ k <= Len(b) /\ Code(a[k]) < Code(b[k])

\* sorted(files_touched): each string is put after the strings below it
RECURSIVE Sorted(_)
Sorted(files) ==
    IF files = {} THEN <<>>
    ELSE LET x == CHOOSE y \in files : TRUE
             rest == Sorted(files \ {x})
             below == Cardinality({i \in 1..Len(rest) : StrLess(rest[i], x)})
         IN  SubSeq(rest, 1, below) \o <<x>> \o SubSeq(rest, below + 1, Len(rest))

\* "(none yet)"
NoneYet == <<"(", "n", "o", "n", "e", " ", "y", "e", "t", ")">>

\* the items of files_list: sorted(files_touched)[:15], or "- (none yet)"
FilesList(files) ==
    IF files = {} THEN <<NoneYet>> ELSE Prefix(Sorted(files), FilesShown)

\* a line "... and N more" for every list that fills the 15 places
MoreLineAtCap(files) ==
    IF Cardinality(files) >= FilesShown
    THEN <<Cardinality(files) - FilesShown>>
    ELSE <<>>

\* if len(files_touched) > 15: "... and {len(files_touched) - 15} more";
\* <<N>> is that line, <<>> is no such line
MoreLine(files) ==
    IF Cardinality(files) > FilesShown
    THEN <<Cardinality(files) - FilesShown>>
    ELSE <<>>

Snapshot(exists, updated, actions, since, counts, tasks, files, more) ==
    [exists |-> exists, updated |-> updated, actions |-> actions, since |-> since,
     counts |-> counts, tasks |-> tasks, files |-> files, more |-> more]

NoSnapshot == Snapshot(FALSE, 0, 0, 0, ZeroCounts, <<>>, <<>>, <<>>)

\* update_live_progress: [ok, doc]; ok = FALSE when a scan raised, and then
\* progress_file.write_text is not reached
update_live_progress(lines, state, clock) ==
    LET scan == count_activity(lines, clock)
        done == extract_completed_tasks(lines, clock)
    IN  IF ~scan.ok \/ ~done.ok
        THEN [ok |-> FALSE, doc |-> NoSnapshot]
        ELSE [ok |-> TRUE,
              doc |-> Snapshot(TRUE, LocalTime(clock), state.action_count,
                               state.session_start, scan.counts,
                               Suffix(done.completed, TasksShown),
                               FilesList(scan.files), MoreLine(scan.files))]

(***************************************************************************)
(* CLAUDE.md                                                               *)
(***************************************************************************)
\* A line of the document: its indentation, its list marker ("-", "*",
\* "1." or "none"), its bracket pair ("[ ]", "[]", "[x]" or "none") and
\* the words that follow.
Line(indent, marker, box, text) ==
    [indent |-> indent, marker |-> marker, box |-> box, text |-> text]

WFix == <<"F", "i", "x">>

WLogin == <<"L", "o", "g", "i", "n">>

WDocs == <<"d", "o", "c", "s">>

WBug == <<"b", "u", "g">>

NoRoadmap == [exists |-> FALSE, lines |-> <<>>]

Roadmap1 ==
    [exists |-> TRUE,
     lines |-> << Line(0, "none", "none", <<WDocs>>),
                  Line(0, "-", "[ ]", <<WFix, WLogin, WBug>>),
                  Line(0, "1.", "[ ]", <<WFix, WLogin>>),
                  Line(2, "*", "[x]", <<WLogin>>),
                  Line(0, "*", "[ ]", <<WDocs>>) >>]

\* str.lower() on one character
Lower(c) ==
    IF \E i \in 1..Len(UpperCase) : UpperCase[i] = c
    THEN LowerCase[CHOOSE i \in 1..Len(UpperCase) : UpperCase[i] = c]
    ELSE c

LowerStr(s) == [i \in 1..Len(s) |-> Lower(s[i])]

\* w in s, for strings
IsSubstring(w, s) ==
    \E i \in 0..(Len(s) - Len(w)) : SubSeq(s, i + 1, i + Len(w)) = w

\* re.match(r'^(\s*[-*]\s*)\[\s*\](\s*.+)$', line)
\* a pattern that takes a checked bracket pair as well
MatchesUncheckedAny(line) ==
    /\ line.marker \in {"-", "*"}
    /\ line.box \in {"[ ]", "[]", "[x]"}
    /\ line.text # <<>>

MatchesUnchecked(line) ==
    /\ line.marker \in {"-", "*"}
    /\ line.box \in {"[ ]", "[]"}
    /\ line.text # <<>>

\* a match that also takes the words of three characters
WordsMatchShort(line, subject) ==
    \E k \in 1..Len(line.text) :
        /\ Len(line.text[k]) >= 3
        /\ IsSubstring(LowerStr(line.text[k]), LowerStr(subject))

\* words and any(w in subject_lower for w in words)
WordsMatch(line, subject) ==
    \E k \in 1..Len(line.text) :
        /\ Len(line.text[k]) > 3
        /\ IsSubstring(LowerStr(line.text[k]), LowerStr(subject))

\* a reconciliation that writes the document back whether or not a line changed
try_update_roadmap_always(doc, subject) ==
    IF ~doc.exists THEN [doc |-> doc, modified |-> FALSE]
    ELSE LET hit(i) == MatchesUnchecked(doc.lines[i]) /\ WordsMatch(doc.lines[i], subject)
             lines == [i \in 1..Len(doc.lines) |->
                         IF hit(i) THEN [doc.lines[i] EXCEPT !.box = "[x]"]
                         ELSE doc.lines[i]]
         IN  [doc |-> [doc EXCEPT !.lines = lines], modified |-> TRUE]

\* try_update_roadmap: [doc, modified]; the document is written when modified
try_update_roadmap(doc, subject) ==
    IF ~doc.exists THEN [doc |-> doc, modified |-> FALSE]
    ELSE LET hit(i) == MatchesUnchecked(doc.lines[i]) /\ WordsMatch(doc.lines[i], subject)
             lines == [i \in 1..Len(doc.lines) |->
                         IF hit(i) THEN [doc.lines[i] EXCEPT !.box = "[x]"]
                         ELSE doc.lines[i]]
             modified == \E i \in 1..Len(doc.lines) : hit(i)
         IN  [doc |-> IF modified THEN [doc EXCEPT !.lines = lines] ELSE doc,
              modified |-> modified]

\* str(task_id) in f"Task #{task_id}"
IdStr(id) == IF id = "None" THEN <<"N", "o", "n", "e">> ELSE <<id>>

\* tool_input.get("subject", f"Task #{task_id}")
SubjectOf(data) ==
    IF "subject" \in data.keys THEN data.subject
    ELSE <<"T", "a", "s", "k", " ", "#">>
            \o IdStr(IF "taskId" \in data.keys THEN data.taskId ELSE "None")

(***************************************************************************)
(* main()                                                                  *)
(***************************************************************************)
\* The local variables of one run of main().  pc: "idle", "append",
\* "track", "snapshot", "save_exit", "save", "done".  stdout: what was
\* printed, one of "empty" ({}), "progress", "task", "error".  exit: the
\* exit status, -1 while running.
NewFrame(data) ==
    [pc |-> "start", data |-> data, state |-> NoState, entry |-> GarbageLine,
     stdout |-> <<>>, exit |-> 0 - 1, attempted |-> FALSE, materialized |-> FALSE,
     saved |-> FALSE, reconciled |-> FALSE, raised |-> FALSE]

IdleFrame == [NewFrame(Truncated) EXCEPT !.pc = "idle"]

World(l, s, p, r) == [log |-> l, stateFile |-> s, snapshot |-> p, roadmap |-> r]

\* input_data.get("tool_name", "")
ToolName(data) == IF "tool_name" \in data.top THEN data.tool_name ELSE ""

\* a guard that knows the "/" separator only
InPrivateDirPosix(data) ==
    /\ data.input = "dict"
    /\ "file_path" \in data.keys
    /\ ContainsClaudeDir(data.file_path, "/")

\* isinstance(tool_input, dict) and
\* (".claude/" in file_path or ".claude\\" in file_path)
InPrivateDir(data) ==
    /\ data.input = "dict"
    /\ "file_path" \in data.keys
    /\ (ContainsClaudeDir(data.file_path, "/") \/ ContainsClaudeDir(data.file_path, "\\"))

\* a handler that lets the error end the process
RaiseFailing(w, f) ==
    [w |-> w, f |-> [f EXCEPT !.pc = "done", !.raised = TRUE, !.exit = 1]]

\* except Exception as e: print(...); then sys.exit(0)
Raise(w, f) ==
    [w |-> w,
     f |-> [f EXCEPT !.pc = "done", !.raised = TRUE,
                     !.stdout = Append(@, "error"), !.exit = 0]]

\* json.load, the recursion guard, get_claude_dir and load_state
StepStart(w, f, clock) ==
    IF f.data.shape # "object" THEN Raise(w, f)
    ELSE IF InPrivateDir(f.data)
    THEN [w |-> w, f |-> [f EXCEPT !.pc = "done", !.stdout = Append(@, "empty"), !.exit = 0]]
    ELSE [w |-> w, f |-> [f EXCEPT !.pc = "append", !.state = load_state(w.stateFile, clock)]]

\* entry = append_activity(claude_dir, input_data)
StepAppend(w, f, clock) ==
    LET e == Entry(f.data, clock)
    IN  [w |-> [w EXCEPT !.log = append_activity(@, e)],
         f |-> [f EXCEPT !.pc = "track", !.entry = e]]

\* the task completion, the checklist and the action counter
StepTrack(w, f, clock) ==
    LET d == f.data
        isTask == ToolName(d) = "TaskUpdate"
        completed == isTask /\ d.input = "dict" /\ "status" \in d.keys /\ d.status = "completed"
        meaningful == ToolName(d) \in MEANINGFUL_TOOLS
        task == [id |-> IF "taskId" \in d.keys THEN d.taskId ELSE "None",
                 subject |-> SubjectOf(d), time |-> LocalTime(clock)]
        r == try_update_roadmap(w.roadmap, SubjectOf(d))
        s1 == IF completed THEN [f.state EXCEPT !.completed_tasks = Append(@, task)] ELSE f.state
        s2 == IF meaningful THEN [s1 EXCEPT !.action_count = @ + 1] ELSE s1
        w1 == IF completed THEN [w EXCEPT !.roadmap = r.doc] ELSE w
    IN  IF isTask /\ d.input # "dict" THEN Raise(w, f)
        ELSE IF (completed \/ meaningful) /\ f.state.kind # "doc" THEN Raise(w, f)
        ELSE [w |-> w1,
              f |-> [f EXCEPT !.state = s2,
                              !.reconciled = completed /\ r.modified,
                              !.pc = IF meaningful /\ s2.action_count % UPDATE_INTERVAL = 0
                                     THEN "snapshot" ELSE "save"]]

\* update_live_progress(claude_dir, state)
StepSnapshot(w, f, clock) ==
    LET r == update_live_progress(w.log, f.state, clock)
    IN  IF ~r.ok THEN Raise(w, [f EXCEPT !.attempted = TRUE])
        ELSE [w |-> [w EXCEPT !.snapshot = r.doc],
              f |-> [f EXCEPT !.pc = "save_exit", !.attempted = TRUE, !.materialized = TRUE]]

\* save_state, the progress notice and sys.exit(0) of the trigger branch
StepSaveExit(w, f, clock) ==
    [w |-> [w EXCEPT !.stateFile = save_state(@, f.state)],
     f |-> [f EXCEPT !.pc = "done", !.saved = TRUE,
                     !.stdout = Append(@, "progress"), !.exit = 0]]

\* save_state, the acknowledgement and the final sys.exit(0)
StepSave(w, f, clock) ==
    LET d == f.data
        completed == ToolName(d) = "TaskUpdate" /\ "status" \in d.keys /\ d.status = "completed"
    IN  [w |-> [w EXCEPT !.stateFile = save_state(@, f.state)],
         f |-> [f EXCEPT !.pc = "done", !.saved = TRUE,
                         !.stdout = Append(@, IF completed THEN "task" ELSE "empty"),
                         !.exit = 0]]

\* the next step of a run of main()
Step(w, f, clock) ==
    CASE f.pc = "start" -> StepStart(w, f, clock)
      [] f.pc = "append" -> StepAppend(w, f, clock)
      [] f.pc = "track" -> StepTrack(w, f, clock)
      [] f.pc = "snapshot" -> StepSnapshot(w, f, clock)
      [] f.pc = "save_exit" -> StepSaveExit(w, f, clock)
      [] f.pc = "save" -> StepSave(w, f, clock)
      [] OTHER -> [w |-> w, f |-> f]

\* main() from its first statement to the end of the process
RECURSIVE Run(_, _, _)
Run(w, f, clock) ==
    IF f.pc = "done" THEN [w |-> w, f |-> f]
    ELSE LET r == Step(w, f, clock) IN Run(r.w, r.f, clock)

main(w, data, clock) == Run(w, NewFrame(data), clock)

(***************************************************************************)
(* Serial runs: one invocation after the other                             *)
(***************************************************************************)
Clock == [now |-> now, tz |-> tz]

Files == World(log, stateFile, snapshot, roadmap)

\* the first instant of the first day
StartInstant == UnitsPerDay

\* whether the run of main() in frame f reached append_activity
Appended(f) == f.entry.kind = "record"

\* whether the payload names a meaningful tool
IsMeaningful(data) == data.shape = "object" /\ ToolName(data) \in MEANINGFUL_TOOLS

\* the logs a first invocation can find: none, or one damaged line
InitLogs == {<<>>, <<GarbageLine>>, <<NonObjectLine>>}

Init ==
    /\ log \in InitLogs
    /\ roadmap \in {NoRoadmap, Roadmap1}
    /\ (log # <<>> => roadmap = Roadmap1)
    /\ stateFile = NoState
    /\ snapshot = NoSnapshot
    /\ now = StartInstant
    /\ tz = 0
    /\ inv = [p \in 1..NProcs |-> IdleFrame]
    /\ nEvents = 0
    /\ nSpecial = 0
    /\ seen = 0
    /\ order = <<>>
    /\ lastSaver = 0

\* one whole invocation of main() on the payload data
Invoke(data) ==
    LET r == main(Files, data, Clock)
    IN  /\ log' = r.w.log
        /\ stateFile' = r.w.stateFile
        /\ snapshot' = r.w.snapshot
        /\ roadmap' = r.w.roadmap
        /\ inv' = [inv EXCEPT ![1] = r.f]
        /\ nEvents' = nEvents + 1
        /\ nSpecial' = nSpecial + (IF data = OrdinaryPayload THEN 0 ELSE 1)
        /\ seen' = seen + (IF Appended(r.f) /\ IsMeaningful(data) THEN 1 ELSE 0)
        /\ UNCHANGED <<now, tz, order, lastSaver>>

Main ==
    \E data \in Payloads :
        /\ nEvents < MaxEvents
        /\ data # OrdinaryPayload => nSpecial < MaxSpecial
        /\ Invoke(data)

Next == Main

Spec == Init /\ [][Next]_vars

(***************************************************************************)
(* Serial runs with a moving clock                                         *)
(***************************************************************************)
InitDay ==
    /\ log = <<>>
    /\ roadmap = NoRoadmap
    /\ stateFile = NoState
    /\ snapshot = NoSnapshot
    /\ now = StartInstant
    /\ tz \in {0 - 1, 0, 1}
    /\ inv = [p \in 1..NProcs |-> IdleFrame]
    /\ nEvents = 0
    /\ nSpecial = 0
    /\ seen = 0
    /\ order = <<>>
    /\ lastSaver = 0

DayMain ==
    \E data \in {EditA, ReadB} :
        /\ nEvents < MaxDayEvents
        /\ Invoke(data)

\* time passes between two invocations
Tick ==
    /\ now < StartInstant + MaxTicks
    /\ now' = now + 1
    /\ UNCHANGED <<log, stateFile, snapshot, roadmap, tz, inv, nEvents, nSpecial,
                   seen, order, lastSaver>>

NextDay == DayMain \/ Tick

SpecDay == InitDay /\ [][NextDay]_vars

(***************************************************************************)
(* Concurrent runs: NProcs invocations, interleaved at their file accesses *)
(***************************************************************************)
Procs == 1..NProcs

ConcPayloads == {EditA, BashLs, ReadB, EditClaude}

\* the state after pre serial invocations on the ordinary payload,
\* for pre = 0 and for pre one short of the update interval
InitConc ==
    \E pre \in {0, UPDATE_INTERVAL - 1} :
        /\ log = [i \in 1..pre |-> Entry(OrdinaryPayload, [now |-> StartInstant, tz |-> 0])]
        /\ stateFile = IF pre = 0 THEN NoState ELSE StateDoc("doc", pre, <<>>, 0)
        /\ seen = pre
        /\ roadmap = NoRoadmap
        /\ snapshot = NoSnapshot
        /\ now = StartInstant
        /\ tz = 0
        /\ inv = [p \in Procs |-> IdleFrame]
        /\ nEvents = 0
        /\ nSpecial = 0
        /\ order = <<>>
        /\ lastSaver = 0

\* process p takes the step of main() that its frame f0 is at
Take(p, f0) ==
    LET r == Step(Files, f0, Clock)
    IN  /\ log' = r.w.log
        /\ stateFile' = r.w.stateFile
        /\ snapshot' = r.w.snapshot
        /\ roadmap' = r.w.roadmap
        /\ inv' = [inv EXCEPT ![p] = r.f]
        /\ order' = IF f0.pc = "append" THEN Append(order, p) ELSE order
        /\ lastSaver' = IF f0.pc \in {"save", "save_exit"} THEN p ELSE lastSaver
        /\ seen' = seen + (IF f0.pc = "append" /\ IsMeaningful(f0.data) THEN 1 ELSE 0)
        /\ nEvents' = nEvents + (IF f0.pc = "start" THEN 1 ELSE 0)
        /\ UNCHANGED <<now, tz, nSpecial>>

ProcStart(p) ==
    /\ inv[p].pc = "idle"
    /\ \E data \in ConcPayloads : Take(p, NewFrame(data))

ProcAppend(p) == inv[p].pc = "append" /\ Take(p, inv[p])

ProcTrack(p) == inv[p].pc = "track" /\ Take(p, inv[p])

ProcSnapshot(p) == inv[p].pc = "snapshot" /\ Take(p, inv[p])

ProcSaveExit(p) == inv[p].pc = "save_exit" /\ Take(p, inv[p])

ProcSave(p) == inv[p].pc = "save" /\ Take(p, inv[p])

NextConc ==
    \E p \in Procs :
        \/ ProcStart(p)
        \/ ProcAppend(p)
        \/ ProcTrack(p)
        \/ ProcSnapshot(p)
        \/ ProcSaveExit(p)
        \/ ProcSave(p)

SpecConc == InitConc /\ [][NextConc]_vars

(***************************************************************************)
(* Serial runs that find a state document they did not write               *)
(***************************************************************************)
\* a state file that json.loads rejects
GarbageState == StateDoc("garbage", 0, <<>>, 0)

\* a state file that parses, but not to an object (such as [])
NonObjectState == StateDoc("nonobject", 0, <<>>, 0)

InitState ==
    /\ stateFile \in {NoState, GarbageState, NonObjectState}
    /\ log = <<>>
    /\ roadmap = NoRoadmap
    /\ snapshot = NoSnapshot
    /\ now = StartInstant
    /\ tz = 0
    /\ inv = [p \in 1..NProcs |-> IdleFrame]
    /\ nEvents = 0
    /\ nSpecial = 0
    /\ seen = 0
    /\ order = <<>>
    /\ lastSaver = 0

StateMain ==
    \E data \in {EditA, ReadB, TaskDone} :
        /\ nEvents < MaxStateEvents
        /\ Invoke(data)

NextState == StateMain

SpecState == InitState /\ [][NextState]_vars

(***************************************************************************)
(* Serial runs over the checklists                                         *)
(***************************************************************************)
Wlogin == <<"l", "o", "g", "i", "n">>

WTimeout == <<"t", "i", "m", "e", "o", "u", "t">>

WDOCS == <<"D", "O", "C", "S">>

WUpdate == <<"U", "p", "d", "a", "t", "e">>

WPage == <<"p", "a", "g", "e">>

WTask == <<"T", "a", "s", "k">>

WList == <<"l", "i", "s", "t">>

\* - [ ] Fix login timeout bug
\* - [ ] Fix bug
\* * [] Update DOCS
\* - [x] login page
\* 1. [ ] Fix login timeout bug
\*   - [ ] timeout
\* login docs
\* - [ ]
\* * [ ] Task list
Roadmap2 ==
    [exists |-> TRUE,
     lines |-> << Line(0, "-", "[ ]", <<WFix, Wlogin, WTimeout, WBug>>),
                  Line(0, "-", "[ ]", <<WFix, WBug>>),
                  Line(0, "*", "[]", <<WUpdate, WDOCS>>),
                  Line(0, "-", "[x]", <<Wlogin, WPage>>),
                  Line(0, "1.", "[ ]", <<WFix, Wlogin, WTimeout, WBug>>),
                  Line(2, "-", "[ ]", <<WTimeout>>),
                  Line(0, "none", "none", <<Wlogin, WDocs>>),
                  Line(0, "-", "[ ]", <<>>),
                  Line(0, "*", "[ ]", <<WTask, WList>>) >>]

\* a checklist with nothing left to check
Roadmap3 ==
    [exists |-> TRUE,
     lines |-> << Line(0, "none", "none", <<WDocs>>),
                  Line(0, "-", "[x]", <<Wlogin, WTimeout>>) >>]

SubjectTimeout == <<"l", "o", "g", "i", "n", " ", "t", "i", "m", "e", "o", "u", "t", " ", "i", "s", "s", "u", "e", " ", "r", "e", "s", "o", "l", "v", "e", "d">>

SubjectUnrelated == <<"u", "n", "r", "e", "l", "a", "t", "e", "d", " ", "r", "e", "f", "a", "c", "t", "o", "r">>

SubjectDocs == <<"D", "o", "c", "s", " ", "D", "O", "N", "E">>

TaskDoneWith(subject) == [TaskDone EXCEPT !.subject = subject]

\* a completed TaskUpdate with no subject: the subject is "Task #7"
TaskDoneNoSubject == [TaskDone EXCEPT !.keys = {"taskId", "status"}, !.subject = NoSubject]

TaskPayloads ==
    {EditA, TaskDone, TaskDoneWith(SubjectTimeout), TaskDoneWith(SubjectUnrelated),
     TaskDoneWith(SubjectDocs), TaskDoneNoSubject}

InitTasks ==
    /\ roadmap \in {NoRoadmap, Roadmap1, Roadmap2, Roadmap3}
    /\ log = <<>>
    /\ stateFile = NoState
    /\ snapshot = NoSnapshot
    /\ now = StartInstant
    /\ tz = 0
    /\ inv = [p \in 1..NProcs |-> IdleFrame]
    /\ nEvents = 0
    /\ nSpecial = 0
    /\ seen = 0
    /\ order = <<>>
    /\ lastSaver = 0

TasksMain ==
    \E data \in TaskPayloads :
        /\ nEvents < MaxTaskEvents
        /\ Invoke(data)

NextTasks == TasksMain

SpecTasks == InitTasks /\ [][NextTasks]_vars

(***************************************************************************)
(* Serial runs over the commands                                           *)
(***************************************************************************)
CmdChars == <<"a", "b", "c">>

\* a command of n characters
Cmd(n) == [i \in 1..n |-> CmdChars[(i % Len(CmdChars)) + 1]]

BashCmd(n) == [BashLs EXCEPT !.command = Cmd(n)]

InitCmd ==
    /\ log = <<>>
    /\ roadmap = NoRoadmap
    /\ stateFile = NoState
    /\ snapshot = NoSnapshot
    /\ now = StartInstant
    /\ tz = 0
    /\ inv = [p \in 1..NProcs |-> IdleFrame]
    /\ nEvents = 0
    /\ nSpecial = 0
    /\ seen = 0
    /\ order = <<>>
    /\ lastSaver = 0

CmdMain ==
    \E n \in 0..MaxCmdLen :
        /\ nEvents < MaxCmdEvents
        /\ Invoke(BashCmd(n))

NextCmd == CmdMain

SpecCmd == InitCmd /\ [][NextCmd]_vars

(***************************************************************************)
(* Serial runs over the file lists                                         *)
(***************************************************************************)
\* str(i)
RECURSIVE Decimal(_)
Decimal(i) ==
    IF i < 10 THEN <<Digits[i + 1]>>
    ELSE Decimal(i \div 10) \o <<Digits[(i % 10) + 1]>>

\* src/f1, src/f2, ..., src/f10, ...
File(i) ==
    [root |-> "rel", sep |-> "/", segs |-> <<<<"s", "r", "c">>, <<"f">> \o Decimal(i)>>]

\* src/Z.py: an upper-case name
PathUpper == [root |-> "rel", sep |-> "/", segs |-> <<<<"s", "r", "c">>, <<"Z", ".", "p", "y">>>>]

\* the same file named with the working directory before it
Absolute(path) == [path EXCEPT !.root = "cwd"]

ReadFile(path) == [ReadB EXCEPT !.file_path = path]

\* the payloads of a session that has read n files, in the order the names
\* are numbered or in the opposite order, and then run four commands; the
\* runs of main() on them leave one record each and the count of four
Session(n, ascending) ==
    [k \in 1..n |-> ReadFile(File(IF ascending THEN k ELSE n + 1 - k))]
        \o [k \in 1..(UPDATE_INTERVAL - 1) |-> BashLs]

InitFiles ==
    \E n \in 0..MaxFiles, ascending \in BOOLEAN :
        LET clock == [now |-> StartInstant, tz |-> 0]
            session == Session(n, ascending)
        IN  /\ log = [k \in 1..Len(session) |-> Entry(session[k], clock)]
            /\ stateFile = StateDoc("doc", UPDATE_INTERVAL - 1, <<>>, LocalTime(clock))
            /\ snapshot = NoSnapshot
            /\ roadmap = NoRoadmap
            /\ now = StartInstant
            /\ tz = 0
            /\ inv = [p \in 1..NProcs |-> IdleFrame]
            /\ nEvents = 0
            /\ nSpecial = 0
            /\ seen = UPDATE_INTERVAL - 1
            /\ order = <<>>
            /\ lastSaver = 0

FilePayloads ==
    {BashLs, ReadFile(File(MaxFiles + 1)), ReadFile(Absolute(File(1))), ReadFile(PathUpper)}

FilesMain ==
    \E data \in FilePayloads :
        /\ nEvents < MaxFileEvents
        /\ Invoke(data)

NextFiles == FilesMain

SpecFiles == InitFiles /\ [][NextFiles]_vars

(***************************************************************************)
(* Properties                                                              *)
(***************************************************************************)
\* the frame of the invocation a serial run made last
Last == inv[1]

\* a serial invocation has been made
Ran == nEvents > 0 /\ Last.pc = "done"


\* the document that is persisted, as a counter: 0 while there is none
PersistedCount == IF stateFile.kind = "doc" THEN stateFile.action_count ELSE 0

\* the meaningful-tool records in the lines of a log
MeaningfulRecords(lines) ==
    Cardinality({i \in 1..Len(lines) :
                    lines[i].kind = "record" /\ lines[i].tool \in MEANINGFUL_TOOLS})

\* the payload names a file with a directory segment ending in ".claude"
NamesPrivateFile(data) ==
    /\ data.shape = "object"
    /\ data.input = "dict"
    /\ "file_path" \in data.keys
    /\ \E i \in 1..(Len(data.file_path.segs) - 1) :
          EndsWithDotClaude(data.file_path.segs[i])

\* the sum of the six counters of a snapshot
TotalCount(c) == c.edits + c.writes + c.reads + c.commands + c.tasks + c.other

(* C1: In a serial run a snapshot is materialized by an invocation exactly  *)
(* when its event is the 5th, 10th, 15th, ... meaningful-tool event that    *)
(* was processed, whatever other events came between.                       *)
C1_TriggerDeterminism ==
    Ran => (Last.materialized <=>
                /\ Appended(Last)
                /\ IsMeaningful(Last.data)
                /\ seen % UPDATE_INTERVAL = 0)

(* C2: Every invocation of main, whatever the payload and whatever path it  *)
(* takes, prints exactly one acknowledgement and exits with status 0.       *)
C2_NeverFail == Ran => (Len(Last.stdout) = 1 /\ Last.exit = 0)

\* a truncated payload was acknowledged with the error notice
C2_Witness ==
    /\ Ran
    /\ Last.data = Truncated
    /\ Last.raised
    /\ Last.stdout = <<"error">>
    /\ Last.exit = 0

(* C3: An error raised inside update_live_progress does not keep the        *)
(* session state from being saved: the persisted document then holds the    *)
(* incremented action_count and the task completions of the event.          *)
C3_SnapshotErrorKeepsState ==
    (Ran /\ Last.attempted /\ ~Last.materialized) =>
        /\ stateFile.kind = "doc"
        /\ stateFile.action_count = Last.state.action_count
        /\ stateFile.completed_tasks = Last.state.completed_tasks

(* C4: After every invocation of a serial run the persisted action_count    *)
(* equals the number of meaningful-tool records appended to the log.        *)
C4_CountMatchesLog == Ran => PersistedCount = MeaningfulRecords(log)

(* C5: The log is append-only: an invocation whose payload is an event      *)
(* object outside the private directory extends the log by exactly one      *)
(* record at its end, and every other invocation leaves the log as it was.  *)
C5_AppendOnly ==
    [][nEvents' = nEvents + 1 =>
         LET d == inv'[1].data
         IN  IF d.shape = "object" /\ ~NamesPrivateFile(d)
             THEN /\ Len(log') = Len(log) + 1
                  /\ SubSeq(log', 1, Len(log)) = log
                  /\ log'[Len(log')].kind = "record"
                  /\ log'[Len(log')].tool =
                        (IF "tool_name" \in d.top THEN d.tool_name ELSE "unknown")
             ELSE log' = log]_vars

\* a snapshot was materialized and the damaged first line and the records
\* after it are all still in the log
C5_Witness ==
    /\ Ran
    /\ Last.materialized
    /\ log[1] = GarbageLine
    /\ Len(log) > UPDATE_INTERVAL

(* C6: An event whose file path lies in the private directory is ignored:   *)
(* the acknowledgement is {} and the log, the session state, the snapshot   *)
(* and the checklist are unchanged, also for a completed TaskUpdate.        *)
C6_RecursionGuard ==
    [][(nEvents' = nEvents + 1 /\ NamesPrivateFile(inv'[1].data)) =>
          /\ inv'[1].stdout = <<"empty">>
          /\ inv'[1].exit = 0
          /\ UNCHANGED <<log, stateFile, snapshot, roadmap>>]_vars

\* a completed TaskUpdate on a private file came after four edits and
\* left the state, the log and the checklist alone
C6_Witness ==
    /\ Ran
    /\ Last.data = TaskDoneClaude
    /\ Last.stdout = <<"empty">>
    /\ PersistedCount = UPDATE_INTERVAL - 1
    /\ Len(log) = UPDATE_INTERVAL - 1
    /\ stateFile.completed_tasks = <<>>
    /\ roadmap = Roadmap1

(* C7: A scan of the log skips every malformed line, also one that parses   *)
(* but is not an object: the lines around it are counted and the snapshot   *)
(* and the save of that invocation complete.                                *)
C7_MalformedSkipped ==
    (Ran /\ Last.attempted) =>
        /\ Last.materialized
        /\ Last.saved
        /\ snapshot.counts =
              CountFromLenient(log, 1, LocalDate(Clock),
                               [counts |-> ZeroCounts, files |-> {}]).counts

(* C8: The snapshot counts the records of the local calendar day of the     *)
(* materialization and no others: none written on an earlier local day,     *)
(* all written earlier on the same local day.                               *)
C8_TodayOnly ==
    (Ran /\ Last.materialized) =>
        LET today == DateOf(Last.entry.timestamp + tz)
        IN  TotalCount(snapshot.counts) =
                Cardinality({i \in 1..Len(log) :
                                /\ log[i].kind = "record"
                                /\ DateOf(log[i].timestamp + tz) = today})

\* the lines of the log that were there before the concurrent invocations
Base == seen - Cardinality({k \in 1..Len(order) : IsMeaningful(inv[order[k]].data)})

AllDone == \A p \in Procs : inv[p].pc = "done"

C10_LastWriterWins == lastSaver # 0 => stateFile = inv[lastSaver].state

\* two meaningful records were appended after four, the counter stands at
\* five and both invocations materialized the snapshot for that count
C10_Witness ==
    /\ AllDone
    /\ MeaningfulRecords(log) = UPDATE_INTERVAL + 1
    /\ PersistedCount = UPDATE_INTERVAL
    /\ inv[1].materialized
    /\ inv[2].materialized
    /\ inv[1].state.action_count = inv[2].state.action_count

(* C11: load_state never fails the caller: whatever the state file holds,   *)
(* the invocation that loaded it appends its record, saves the state and    *)
(* acknowledges without an error notice.                                    *)
C11_LoadNeverFails ==
    Ran => (Appended(Last) /\ ~Last.raised /\ Last.saved /\ Last.stdout # <<"error">>)

\* the invocation of frame f recorded a task completion and reconciled the
\* checklist with its subject
Reconciled(f) ==
    /\ Appended(f)
    /\ ToolName(f.data) = "TaskUpdate"
    /\ f.data.input = "dict"
    /\ "status" \in f.data.keys
    /\ f.data.status = "completed"
    /\ f.state.kind = "doc"

\* an unchecked list item: a "-" or "*" marker and an empty bracket pair
IsUncheckedBullet(line) == line.marker \in {"-", "*"} /\ line.box \in {"[ ]", "[]"}

\* some word of the line longer than 3 characters occurs in the subject,
\* letter by letter and without regard to case
HasLongWordIn(line, subject) ==
    \E k \in 1..Len(line.text) :
        LET w == line.text[k]
        IN  /\ Len(w) > 3
            /\ \E off \in 0..(Len(subject) - Len(w)) :
                  \A j \in 1..Len(w) : Lower(w[j]) = Lower(subject[off + j])

(* C12: On reconciliation with a completed task's subject an unchecked      *)
(* "-" or "*" item becomes checked if and only if one of its words longer   *)
(* than 3 characters occurs, case-insensitively, in the subject.            *)
C12_WordRule ==
    [][(nEvents' = nEvents + 1 /\ Reconciled(inv'[1]) /\ roadmap.exists) =>
          /\ roadmap'.exists
          /\ Len(roadmap'.lines) = Len(roadmap.lines)
          /\ \A i \in 1..Len(roadmap.lines) :
                IsUncheckedBullet(roadmap.lines[i]) =>
                    (roadmap'.lines[i].box = "[x]" <=>
                        HasLongWordIn(roadmap.lines[i], SubjectOf(inv'[1].data)))]_vars

\* "login timeout issue resolved" checked "- [ ] Fix login timeout bug" and
\* left "- [ ] Fix bug" unchecked
C12_Witness ==
    /\ Ran
    /\ Last.data = TaskDoneWith(SubjectTimeout)
    /\ nEvents = 1
    /\ Len(roadmap.lines) = Len(Roadmap2.lines)
    /\ roadmap.lines[1] = Line(0, "-", "[x]", <<WFix, Wlogin, WTimeout, WBug>>)
    /\ roadmap.lines[2] = Line(0, "-", "[ ]", <<WFix, WBug>>)

(* C13: Reconciliation writes the checklist only if a line changed: with no *)
(* matching unchecked item, or no document, nothing is written; a rewrite   *)
(* keeps every other line as it was and in its place.                       *)
C13_RewriteOnlyOnChange ==
    [][nEvents' = nEvents + 1 =>
          /\ inv'[1].reconciled <=> roadmap' # roadmap
          /\ roadmap'.exists = roadmap.exists
          /\ Len(roadmap'.lines) = Len(roadmap.lines)
          /\ \A i \in 1..Len(roadmap.lines) :
                \/ roadmap'.lines[i] = roadmap.lines[i]
                \/ /\ IsUncheckedBullet(roadmap.lines[i])
                   /\ HasLongWordIn(roadmap.lines[i], SubjectOf(inv'[1].data))
                   /\ roadmap'.lines[i] = [roadmap.lines[i] EXCEPT !.box = "[x]"]]_vars

\* "Docs DONE" rewrote the checklist: "* [] Update DOCS" is checked and
\* the eight other lines are as they were
C13_Witness ==
    /\ Ran
    /\ nEvents = 1
    /\ Last.data = TaskDoneWith(SubjectDocs)
    /\ Last.reconciled
    /\ Len(roadmap.lines) = Len(Roadmap2.lines)
    /\ roadmap.lines[3] = Line(0, "*", "[x]", <<WUpdate, WDOCS>>)
    /\ \A i \in (1..Len(Roadmap2.lines)) \ {3} : roadmap.lines[i] = Roadmap2.lines[i]

\* the truncation marker
Marker == <<".", ".", ".">>

(* C14: A command of at most 100 characters is stored verbatim in the log   *)
(* record; a longer one is stored as its first 100 characters and the       *)
(* marker, 100 + marker length in all; no stored command is longer.         *)
C14_Truncation ==
    (Ran /\ Appended(Last) /\ "command" \in Last.entry.keys) =>
        LET cmd == Last.data.command
            stored == log[Len(log)].command
        IN  /\ Len(cmd) <= CommandLimit => stored = cmd
            /\ Len(cmd) > CommandLimit =>
                  /\ Len(stored) = CommandLimit + Len(Marker)
                  /\ \A i \in 1..CommandLimit : stored[i] = cmd[i]
                  /\ \A i \in 1..Len(Marker) : stored[CommandLimit + i] = Marker[i]
            /\ Len(stored) <= CommandLimit + Len(Marker)

\* a command of 101 characters is stored as 103
C14_Witness ==
    /\ Ran
    /\ Len(Last.data.command) = CommandLimit + 1
    /\ "command" \in log[Len(log)].keys
    /\ Len(log[Len(log)].command) = CommandLimit + Len(Marker)

\* the files of today's records of the log
TouchedToday ==
    {Text(RelativeToCwd(log[i].file)) :
        i \in {j \in 1..Len(log) :
                 /\ log[j].kind = "record"
                 /\ "file" \in log[j].keys
                 /\ StartsWithDate(log[j].timestamp, LocalDate(Clock))}}

(* C15: When n distinct files were touched today, the file list of the      *)
(* snapshot just written holds the first min(n, 15) of them in sort order   *)
(* and nothing else, and it has a line "... and (n - 15) more" exactly      *)
(* when n > 15.                                                             *)
C15_FileListCap ==
    (Ran /\ Last.materialized) =>
        LET n == Cardinality(TouchedToday)
            list == snapshot.files
            shown == {list[i] : i \in 1..Len(list)}
        IN  /\ n > 0 =>
                  /\ Len(list) = Min(n, FilesShown)
                  /\ shown \subseteq TouchedToday
                  /\ \A i, j \in 1..Len(list) : i < j => StrLess(list[i], list[j])
                  /\ \A t \in TouchedToday \ shown : StrLess(list[Len(list)], t)
            /\ n = 0 => list = <<NoneYet>>
            /\ snapshot.more # <<>> <=> n > FilesShown
            /\ n > FilesShown => snapshot.more = <<n - FilesShown>>

\* 20 files: the list shows 15 of them and the line says 5 more
C15_Witness ==
    /\ Ran
    /\ Last.materialized
    /\ Cardinality(TouchedToday) = 20
    /\ Len(snapshot.files) = FilesShown
    /\ snapshot.more = <<5>>

\* the completed_tasks of the document that is persisted
PersistedTasks == IF stateFile.kind = "doc" THEN stateFile.completed_tasks ELSE <<>>

(* C16: An invocation that processes a completed-task event extends the     *)
(* persisted completed_tasks by exactly one entry, the event's, at its end  *)
(* and keeps the earlier entries, also when it is the one that triggers     *)
(* the snapshot; every other invocation leaves the sequence as it was.      *)
C16_CompletionsAppendOnly ==
    [][nEvents' = nEvents + 1 =>
          IF Reconciled(inv'[1])
          THEN /\ Len(PersistedTasks') = Len(PersistedTasks) + 1
               /\ SubSeq(PersistedTasks', 1, Len(PersistedTasks)) = PersistedTasks
               /\ PersistedTasks'[Len(PersistedTasks')].subject = SubjectOf(inv'[1].data)
          ELSE PersistedTasks' = PersistedTasks]_vars

(* C17: The persisted action_count never decreases: an invocation that      *)
(* processes an event of a meaningful tool raises it by exactly one, and    *)
(* every other invocation leaves it, and the snapshot, as they were.        *)
C17_CountStepsByOne ==
    [][nEvents' = nEvents + 1 =>
          IF Appended(inv'[1]) /\ IsMeaningful(inv'[1].data)
          THEN PersistedCount' = PersistedCount + 1
          ELSE PersistedCount' = PersistedCount /\ snapshot' = snapshot]_vars

(* C18: Once the session state has been saved, the persisted session_start  *)
(* is the same after every later invocation, whatever the events and the    *)
(* time at which they come.                                                 *)
C18_SessionStartFixed ==
    [][stateFile.kind = "doc" =>
          /\ stateFile'.kind = "doc"
          /\ stateFile'.session_start = stateFile.session_start]_vars

\* a later invocation saved the state at another time of day than the one
\* the session started at
C18_Witness ==
    /\ Ran
    /\ nEvents >= 2
    /\ Last.saved
    /\ stateFile.kind = "doc"
    /\ Last.entry.time_local # stateFile.session_start

\* an unchecked list item of any kind: a "-", "*" or numbered marker and an
\* empty bracket pair
IsUncheckedItem(line) == line.marker # "none" /\ line.box \in {"[ ]", "[]"}

(* C19: On reconciliation every unchecked list item, a numbered one such    *)
(* as "1. [ ] Fix login timeout bug" like a "-" or "*" one, becomes checked *)
(* when one of its words longer than 3 characters occurs in the subject.    *)
C19_NumberedItems ==
    [][(nEvents' = nEvents + 1 /\ Reconciled(inv'[1]) /\ roadmap.exists) =>
          \A i \in 1..Len(roadmap.lines) :
              (IsUncheckedItem(roadmap.lines[i])
                  /\ HasLongWordIn(roadmap.lines[i], SubjectOf(inv'[1].data))) =>
                      (i <= Len(roadmap'.lines) /\ roadmap'.lines[i].box = "[x]")]_vars

\* the number of checked items of a document
CheckedItems(doc) ==
    IF doc.exists
    THEN Cardinality({i \in 1..Len(doc.lines) : doc.lines[i].box = "[x]"})
    ELSE 0

(* C20: Reconciliation is monotone and idempotent: an invocation never      *)
(* alters a line that is already checked and never lowers the number of     *)
(* checked items, and a reconciliation with the same subject as the one     *)
(* before it leaves the document as it was and writes nothing.              *)
C20_MonotoneIdempotent ==
    [][nEvents' = nEvents + 1 =>
          /\ roadmap'.exists = roadmap.exists
          /\ Len(roadmap'.lines) = Len(roadmap.lines)
          /\ \A i \in 1..Len(roadmap.lines) :
                roadmap.lines[i].box = "[x]" => roadmap'.lines[i] = roadmap.lines[i]
          /\ CheckedItems(roadmap') >= CheckedItems(roadmap)
          /\ (Ran /\ Reconciled(Last) /\ Reconciled(inv'[1])
                  /\ SubjectOf(inv'[1].data) = SubjectOf(Last.data)) =>
                (roadmap' = roadmap /\ ~inv'[1].reconciled)]_vars

\* the subject that checked the item "timeout" was reconciled a second
\* time, and nothing was written
C20_Witness ==
    /\ Ran
    /\ nEvents = 2
    /\ Reconciled(Last)
    /\ SubjectOf(Last.data) = SubjectTimeout
    /\ ~Last.reconciled
    /\ roadmap.exists
    /\ \E i \in 1..Len(roadmap.lines) :
          roadmap.lines[i] = Line(2, "-", "[x]", <<WTimeout>>)

====
